---- MODULE Spec2Model ----
(***************************************************************************)
(* A model of the chat front end: the AppContent component of              *)
(* frontend/src/App.js and the relay client of frontend/src/services/      *)
(* api.js.                                                                 *)
(*                                                                         *)
(* The state is the component's useState cells plus the asynchronous       *)
(* handler runs that are suspended on an await (each with the values its   *)
(* closure captured when the handler was invoked).  One action is one      *)
(* uninterrupted run of handler code: from the event to the first await,   *)
(* or from the settling of an awaited promise to the next await or the     *)
(* end of the handler.  React commits the state updates of a run before    *)
(* the next event is delivered, so every run reads the committed state.    *)
(*                                                                         *)
(* Handlers are modelled at the level of the handler function: a handler   *)
(* can be invoked in any state, and its own guards decide what it does.    *)
(*                                                                         *)
(* A request of the relay client is a record of what axios posts: the      *)
(* url, the headers and the body.  The auth session the component runs in  *)
(* is part of the state, although the relay client does not read it.       *)
(*                                                                         *)
(* Strings the code inspects character by character (the input text, file  *)
(* names) are sequences of UTF-16 code units.  A code unit is written as   *)
(* the one-character string of its character when that is printable ASCII  *)
(* (the grave accent excepted, which a TLA+ string cannot hold) or one of  *)
(* \t \n \r \f, and as "U+XXXX" (four hexadecimal digits) otherwise.       *)
(***************************************************************************)
EXTENDS Integers, Sequences, FiniteSets, TLC

VARIABLES
    messages,             \* App.js:15 useState([])
    inputMessage,         \* App.js:16 useState('')
    isLoading,            \* App.js:25 useState(false)
    sends,                \* suspended runs of handleSendMessage
    now,                  \* the wall clock read by Date.now()
    clientFiles,          \* App.js:19 useState([])
    uploadedClientFiles,  \* App.js:20 useState([])
    clientDragActive,     \* App.js:21 useState(false)
    policyFiles,          \* App.js:22 useState([])
    uploadedPolicyFiles,  \* App.js:23 useState([])
    clientUploads,        \* suspended runs of handleClientFileUpload
    policyUploads,        \* suspended runs of handlePolicyDocumentUpload
    fetching,             \* the mount effect's fetchFiles run is suspended
    session,              \* App.js:10-13 the ambient auth session
    last                  \* the latest handler run: its name, its event's
                          \* files, and what it showed (alert) or logged

vars == <<messages, inputMessage, isLoading, sends, now,
          clientFiles, uploadedClientFiles, clientDragActive,
          policyFiles, uploadedPolicyFiles, clientUploads, policyUploads,
          fetching, session, last>>

chatVars == <<messages, inputMessage, isLoading, sends, now>>

uploadVars == <<clientFiles, uploadedClientFiles, clientDragActive,
                policyFiles, uploadedPolicyFiles, clientUploads,
                policyUploads, fetching>>

(***************************************************************************)
(* Bounds of the model.                                                    *)
(***************************************************************************)
MaxMsgs == 4

MaxClock == 1

MaxStaged == 2

MaxInFlight == 1

(***************************************************************************)
(* JavaScript values and string functions.                                 *)
(***************************************************************************)
Undefined == [t |-> "undefined", v |-> <<>>]

JStr(s) == [t |-> "string", v |-> s]

\* A variant of ToBoolean that takes every string for true.
TruthyAnyString(x) == x.t = "string"

\* ToBoolean of a value that is a string or undefined.
Truthy(x) == x.t = "string" /\ x.v # <<>>

\* The code units String.prototype.trim removes: WhiteSpace and
\* LineTerminator of ECMAScript (TAB, LF, VT, FF, CR, SP, NBSP, the space
\* separators of Unicode, LS, PS, ZWNBSP).
WhiteSpace ==
    {"\t", "\n", "U+000B", "\f", "\r", " ", "U+00A0", "U+1680",
     "U+2000", "U+2001", "U+2002", "U+2003", "U+2004", "U+2005", "U+2006",
     "U+2007", "U+2008", "U+2009", "U+200A", "U+2028", "U+2029", "U+202F",
     "U+205F", "U+3000", "U+FEFF"}

RECURSIVE TrimStart(_)
TrimStart(s) ==
    IF s # <<>> /\ Head(s) \in WhiteSpace THEN TrimStart(Tail(s)) ELSE s

RECURSIVE TrimEnd(_)
TrimEnd(s) ==
    IF s # <<>> /\ s[Len(s)] \in WhiteSpace
    THEN TrimEnd(SubSeq(s, 1, Len(s) - 1))
    ELSE s

\* String.prototype.trim
Trim(s) == TrimEnd(TrimStart(s))

\* String.prototype.toLowerCase works on code points, with the mappings of
\* the Unicode character database.  The tables are those of Unicode 17.0.
Hex == <<"0", "1", "2", "3", "4", "5", "6", "7",
         "8", "9", "A", "B", "C", "D", "E", "F">>

\* The printable ASCII characters, U+0020 to U+007E, as the model writes them.
Ascii ==
    <<" ", "!", "\"", "#", "$", "%", "&", "'", "(", ")", "*", "+",
      ",", "-", ".", "/", "0", "1", "2", "3", "4", "5", "6", "7",
      "8", "9", ":", ";", "<", "=", ">", "?", "@", "A", "B", "C",
      "D", "E", "F", "G", "H", "I", "J", "K", "L", "M", "N", "O",
      "P", "Q", "R", "S", "T", "U", "V", "W", "X", "Y", "Z", "[",
      "\\", "]", "^", "_", "U+0060", "a", "b", "c", "d", "e", "f", "g",
      "h", "i", "j", "k", "l", "m", "n", "o", "p", "q", "r", "s",
      "t", "u", "v", "w", "x", "y", "z", "{", "|", "}", "~">>

\* The code unit of value n, as the model writes it.
CodeUnit(n) ==
    CASE n \in 32..126 -> Ascii[n - 31]
      [] n = 9 -> "\t"
      [] n = 10 -> "\n"
      [] n = 12 -> "\f"
      [] n = 13 -> "\r"
      [] OTHER -> "U+" \o Hex[((n \div 4096) % 16) + 1]
                       \o Hex[((n \div 256) % 16) + 1]
                       \o Hex[((n \div 16) % 16) + 1]
                       \o Hex[(n % 16) + 1]

\* The code units of the code point n: itself, or its surrogate pair.
CodePoint(n) ==
    IF n < 65536
    THEN <<CodeUnit(n)>>
    ELSE <<CodeUnit(55296 + ((n - 65536) \div 1024)),
           CodeUnit(56320 + ((n - 65536) % 1024))>>

HighSurrogates == {CodeUnit(n) : n \in 55296..56319}

LowSurrogates == {CodeUnit(n) : n \in 56320..57343}

\* The code points of a string: a high surrogate followed by a low one is one
\* code point, every other code unit is a code point of its own.
RECURSIVE CodePoints(_)
CodePoints(s) ==
    IF s = <<>> THEN <<>>
    ELSE IF Len(s) >= 2 /\ s[1] \in HighSurrogates /\ s[2] \in LowSurrogates
    THEN <<SubSeq(s, 1, 2)>> \o CodePoints(SubSeq(s, 3, Len(s)))
    ELSE <<<<s[1]>>>> \o CodePoints(Tail(s))

\* The simple lower-case mappings of the Unicode character database, in runs
\* <<first, last, step, lower-case of first>>: the code points first,
\* first + step, ..., last map to consecutive code points of the same step.
LowerRuns ==
    {<<65, 90, 1, 97>>, <<192, 214, 1, 224>>, <<216, 222, 1, 248>>,
     <<256, 302, 2, 257>>, <<306, 310, 2, 307>>, <<313, 327, 2, 314>>,
     <<330, 374, 2, 331>>, <<376, 376, 1, 255>>, <<377, 381, 2, 378>>,
     <<385, 385, 1, 595>>, <<386, 388, 2, 387>>, <<390, 390, 1, 596>>,
     <<391, 391, 1, 392>>, <<393, 394, 1, 598>>, <<395, 395, 1, 396>>,
     <<398, 398, 1, 477>>, <<399, 399, 1, 601>>, <<400, 400, 1, 603>>,
     <<401, 401, 1, 402>>, <<403, 403, 1, 608>>, <<404, 404, 1, 611>>,
     <<406, 406, 1, 617>>, <<407, 407, 1, 616>>, <<408, 408, 1, 409>>,
     <<412, 412, 1, 623>>, <<413, 413, 1, 626>>, <<415, 415, 1, 629>>,
     <<416, 420, 2, 417>>, <<422, 422, 1, 640>>, <<423, 423, 1, 424>>,
     <<425, 425, 1, 643>>, <<428, 428, 1, 429>>, <<430, 430, 1, 648>>,
     <<431, 431, 1, 432>>, <<433, 434, 1, 650>>, <<435, 437, 2, 436>>,
     <<439, 439, 1, 658>>, <<440, 440, 1, 441>>, <<444, 444, 1, 445>>,
     <<452, 452, 1, 454>>, <<453, 453, 1, 454>>, <<455, 455, 1, 457>>,
     <<456, 456, 1, 457>>, <<458, 458, 1, 460>>, <<459, 475, 2, 460>>,
     <<478, 494, 2, 479>>, <<497, 497, 1, 499>>, <<498, 500, 2, 499>>,
     <<502, 502, 1, 405>>, <<503, 503, 1, 447>>, <<504, 542, 2, 505>>,
     <<544, 544, 1, 414>>, <<546, 562, 2, 547>>, <<570, 570, 1, 11365>>,
     <<571, 571, 1, 572>>, <<573, 573, 1, 410>>, <<574, 574, 1, 11366>>,
     <<577, 577, 1, 578>>, <<579, 579, 1, 384>>, <<580, 580, 1, 649>>,
     <<581, 581, 1, 652>>, <<582, 590, 2, 583>>, <<880, 882, 2, 881>>,
     <<886, 886, 1, 887>>, <<895, 895, 1, 1011>>, <<902, 902, 1, 940>>,
     <<904, 906, 1, 941>>, <<908, 908, 1, 972>>, <<910, 911, 1, 973>>,
     <<913, 929, 1, 945>>, <<931, 939, 1, 963>>, <<975, 975, 1, 983>>,
     <<984, 1006, 2, 985>>, <<1012, 1012, 1, 952>>, <<1015, 1015, 1, 1016>>,
     <<1017, 1017, 1, 1010>>, <<1018, 1018, 1, 1019>>, <<1021, 1023, 1, 891>>,
     <<1024, 1039, 1, 1104>>, <<1040, 1071, 1, 1072>>, <<1120, 1152, 2, 1121>>,
     <<1162, 1214, 2, 1163>>, <<1216, 1216, 1, 1231>>, <<1217, 1229, 2, 1218>>,
     <<1232, 1326, 2, 1233>>, <<1329, 1366, 1, 1377>>, <<4256, 4293, 1, 11520>>,
     <<4295, 4295, 1, 11559>>, <<4301, 4301, 1, 11565>>, <<5024, 5103, 1, 43888>>,
     <<5104, 5109, 1, 5112>>, <<7305, 7305, 1, 7306>>, <<7312, 7354, 1, 4304>>,
     <<7357, 7359, 1, 4349>>, <<7680, 7828, 2, 7681>>, <<7838, 7838, 1, 223>>,
     <<7840, 7934, 2, 7841>>, <<7944, 7951, 1, 7936>>, <<7960, 7965, 1, 7952>>,
     <<7976, 7983, 1, 7968>>, <<7992, 7999, 1, 7984>>, <<8008, 8013, 1, 8000>>,
     <<8025, 8031, 2, 8017>>, <<8040, 8047, 1, 8032>>, <<8072, 8079, 1, 8064>>,
     <<8088, 8095, 1, 8080>>, <<8104, 8111, 1, 8096>>, <<8120, 8121, 1, 8112>>,
     <<8122, 8123, 1, 8048>>, <<8124, 8124, 1, 8115>>, <<8136, 8139, 1, 8050>>,
     <<8140, 8140, 1, 8131>>, <<8152, 8153, 1, 8144>>, <<8154, 8155, 1, 8054>>,
     <<8168, 8169, 1, 8160>>, <<8170, 8171, 1, 8058>>, <<8172, 8172, 1, 8165>>,
     <<8184, 8185, 1, 8056>>, <<8186, 8187, 1, 8060>>, <<8188, 8188, 1, 8179>>,
     <<8486, 8486, 1, 969>>, <<8490, 8490, 1, 107>>, <<8491, 8491, 1, 229>>,
     <<8498, 8498, 1, 8526>>, <<8544, 8559, 1, 8560>>, <<8579, 8579, 1, 8580>>,
     <<9398, 9423, 1, 9424>>, <<11264, 11311, 1, 11312>>, <<11360, 11360, 1, 11361>>,
     <<11362, 11362, 1, 619>>, <<11363, 11363, 1, 7549>>, <<11364, 11364, 1, 637>>,
     <<11367, 11371, 2, 11368>>, <<11373, 11373, 1, 593>>, <<11374, 11374, 1, 625>>,
     <<11375, 11375, 1, 592>>, <<11376, 11376, 1, 594>>, <<11378, 11378, 1, 11379>>,
     <<11381, 11381, 1, 11382>>, <<11390, 11391, 1, 575>>, <<11392, 11490, 2, 11393>>,
     <<11499, 11501, 2, 11500>>, <<11506, 11506, 1, 11507>>, <<42560, 42604, 2, 42561>>,
     <<42624, 42650, 2, 42625>>, <<42786, 42798, 2, 42787>>, <<42802, 42862, 2, 42803>>,
     <<42873, 42875, 2, 42874>>, <<42877, 42877, 1, 7545>>, <<42878, 42886, 2, 42879>>,
     <<42891, 42891, 1, 42892>>, <<42893, 42893, 1, 613>>, <<42896, 42898, 2, 42897>>,
     <<42902, 42920, 2, 42903>>, <<42922, 42922, 1, 614>>, <<42923, 42923, 1, 604>>,
     <<42924, 42924, 1, 609>>, <<42925, 42925, 1, 620>>, <<42926, 42926, 1, 618>>,
     <<42928, 42928, 1, 670>>, <<42929, 42929, 1, 647>>, <<42930, 42930, 1, 669>>,
     <<42931, 42931, 1, 43859>>, <<42932, 42946, 2, 42933>>, <<42948, 42948, 1, 42900>>,
     <<42949, 42949, 1, 642>>, <<42950, 42950, 1, 7566>>, <<42951, 42953, 2, 42952>>,
     <<42955, 42955, 1, 612>>, <<42956, 42970, 2, 42957>>, <<42972, 42972, 1, 411>>,
     <<42997, 42997, 1, 42998>>, <<65313, 65338, 1, 65345>>, <<66560, 66599, 1, 66600>>,
     <<66736, 66771, 1, 66776>>, <<66928, 66928, 1, 66967>>, <<66929, 66938, 1, 66968>>,
     <<66940, 66954, 1, 66979>>, <<66956, 66962, 1, 66995>>, <<66964, 66965, 1, 67003>>,
     <<68736, 68786, 1, 68800>>, <<68944, 68965, 1, 68976>>, <<71840, 71871, 1, 71872>>,
     <<93760, 93791, 1, 93792>>, <<93856, 93880, 1, 93883>>, <<125184, 125217, 1, 125218>>}

\* SpecialCasing.txt: the one unconditional lower-case mapping to more than
\* one code point, U+0130 to U+0069 U+0307.
LowerSpecial == {<<CodePoint(304), CodePoint(105) \o CodePoint(775)>>}

LowerPairs ==
    LowerSpecial \cup
    UNION {{<<CodePoint(n), CodePoint(n + (r[4] - r[1]))>> :
              n \in {k \in r[1]..r[2] : (k - r[1]) % r[3] = 0}} :
           r \in LowerRuns}

\* toLowercase of one code point, for the code points that have a mapping.
Lowercase ==
    [cp \in {p[1] : p \in LowerPairs} |->
        (CHOOSE p \in LowerPairs : p[1] = cp)[2]]

\* The code points with the property Cased that are not Case_Ignorable, in
\* runs <<first, last>>.
CasedRuns ==
    {<<65, 90>>, <<97, 122>>, <<170, 170>>, <<181, 181>>,
     <<186, 186>>, <<192, 214>>, <<216, 246>>, <<248, 442>>,
     <<444, 447>>, <<452, 659>>, <<662, 687>>, <<880, 883>>,
     <<886, 887>>, <<891, 893>>, <<895, 895>>, <<902, 902>>,
     <<904, 906>>, <<908, 908>>, <<910, 929>>, <<931, 1013>>,
     <<1015, 1153>>, <<1162, 1327>>, <<1329, 1366>>, <<1376, 1416>>,
     <<4256, 4293>>, <<4295, 4295>>, <<4301, 4301>>, <<4304, 4346>>,
     <<4349, 4351>>, <<5024, 5109>>, <<5112, 5117>>, <<7296, 7306>>,
     <<7312, 7354>>, <<7357, 7359>>, <<7424, 7467>>, <<7531, 7543>>,
     <<7545, 7578>>, <<7680, 7957>>, <<7960, 7965>>, <<7968, 8005>>,
     <<8008, 8013>>, <<8016, 8023>>, <<8025, 8025>>, <<8027, 8027>>,
     <<8029, 8029>>, <<8031, 8061>>, <<8064, 8116>>, <<8118, 8124>>,
     <<8126, 8126>>, <<8130, 8132>>, <<8134, 8140>>, <<8144, 8147>>,
     <<8150, 8155>>, <<8160, 8172>>, <<8178, 8180>>, <<8182, 8188>>,
     <<8450, 8450>>, <<8455, 8455>>, <<8458, 8467>>, <<8469, 8469>>,
     <<8473, 8477>>, <<8484, 8484>>, <<8486, 8486>>, <<8488, 8488>>,
     <<8490, 8493>>, <<8495, 8500>>, <<8505, 8505>>, <<8508, 8511>>,
     <<8517, 8521>>, <<8526, 8526>>, <<8544, 8575>>, <<8579, 8580>>,
     <<9398, 9449>>, <<11264, 11387>>, <<11390, 11492>>, <<11499, 11502>>,
     <<11506, 11507>>, <<11520, 11557>>, <<11559, 11559>>, <<11565, 11565>>,
     <<42560, 42605>>, <<42624, 42651>>, <<42786, 42863>>, <<42865, 42887>>,
     <<42891, 42894>>, <<42896, 42972>>, <<42997, 42998>>, <<43002, 43002>>,
     <<43824, 43866>>, <<43872, 43880>>, <<43888, 43967>>, <<64256, 64262>>,
     <<64275, 64279>>, <<65313, 65338>>, <<65345, 65370>>, <<66560, 66639>>,
     <<66736, 66771>>, <<66776, 66811>>, <<66928, 66938>>, <<66940, 66954>>,
     <<66956, 66962>>, <<66964, 66965>>, <<66967, 66977>>, <<66979, 66993>>,
     <<66995, 67001>>, <<67003, 67004>>, <<68736, 68786>>, <<68800, 68850>>,
     <<68944, 68965>>, <<68976, 68997>>, <<71840, 71903>>, <<93760, 93823>>,
     <<93856, 93880>>, <<93883, 93907>>, <<119808, 119892>>, <<119894, 119964>>,
     <<119966, 119967>>, <<119970, 119970>>, <<119973, 119974>>, <<119977, 119980>>,
     <<119982, 119993>>, <<119995, 119995>>, <<119997, 120003>>, <<120005, 120069>>,
     <<120071, 120074>>, <<120077, 120084>>, <<120086, 120092>>, <<120094, 120121>>,
     <<120123, 120126>>, <<120128, 120132>>, <<120134, 120134>>, <<120138, 120144>>,
     <<120146, 120485>>, <<120488, 120512>>, <<120514, 120538>>, <<120540, 120570>>,
     <<120572, 120596>>, <<120598, 120628>>, <<120630, 120654>>, <<120656, 120686>>,
     <<120688, 120712>>, <<120714, 120744>>, <<120746, 120770>>, <<120772, 120779>>,
     <<122624, 122633>>, <<122635, 122654>>, <<122661, 122666>>, <<125184, 125251>>,
     <<127280, 127305>>, <<127312, 127337>>, <<127344, 127369>>}

\* The code points with the property Case_Ignorable, in runs <<first, last>>.
CaseIgnorableRuns ==
    {<<39, 39>>, <<46, 46>>, <<58, 58>>, <<94, 94>>,
     <<96, 96>>, <<168, 168>>, <<173, 173>>, <<175, 175>>,
     <<180, 180>>, <<183, 184>>, <<688, 879>>, <<884, 885>>,
     <<890, 890>>, <<900, 901>>, <<903, 903>>, <<1155, 1161>>,
     <<1369, 1369>>, <<1375, 1375>>, <<1425, 1469>>, <<1471, 1471>>,
     <<1473, 1474>>, <<1476, 1477>>, <<1479, 1479>>, <<1524, 1524>>,
     <<1536, 1541>>, <<1552, 1562>>, <<1564, 1564>>, <<1600, 1600>>,
     <<1611, 1631>>, <<1648, 1648>>, <<1750, 1757>>, <<1759, 1768>>,
     <<1770, 1773>>, <<1807, 1807>>, <<1809, 1809>>, <<1840, 1866>>,
     <<1958, 1968>>, <<2027, 2037>>, <<2042, 2042>>, <<2045, 2045>>,
     <<2070, 2093>>, <<2137, 2139>>, <<2184, 2184>>, <<2192, 2193>>,
     <<2199, 2207>>, <<2249, 2306>>, <<2362, 2362>>, <<2364, 2364>>,
     <<2369, 2376>>, <<2381, 2381>>, <<2385, 2391>>, <<2402, 2403>>,
     <<2417, 2417>>, <<2433, 2433>>, <<2492, 2492>>, <<2497, 2500>>,
     <<2509, 2509>>, <<2530, 2531>>, <<2558, 2558>>, <<2561, 2562>>,
     <<2620, 2620>>, <<2625, 2626>>, <<2631, 2632>>, <<2635, 2637>>,
     <<2641, 2641>>, <<2672, 2673>>, <<2677, 2677>>, <<2689, 2690>>,
     <<2748, 2748>>, <<2753, 2757>>, <<2759, 2760>>, <<2765, 2765>>,
     <<2786, 2787>>, <<2810, 2815>>, <<2817, 2817>>, <<2876, 2876>>,
     <<2879, 2879>>, <<2881, 2884>>, <<2893, 2893>>, <<2901, 2902>>,
     <<2914, 2915>>, <<2946, 2946>>, <<3008, 3008>>, <<3021, 3021>>,
     <<3072, 3072>>, <<3076, 3076>>, <<3132, 3132>>, <<3134, 3136>>,
     <<3142, 3144>>, <<3146, 3149>>, <<3157, 3158>>, <<3170, 3171>>,
     <<3201, 3201>>, <<3260, 3260>>, <<3263, 3263>>, <<3270, 3270>>,
     <<3276, 3277>>, <<3298, 3299>>, <<3328, 3329>>, <<3387, 3388>>,
     <<3393, 3396>>, <<3405, 3405>>, <<3426, 3427>>, <<3457, 3457>>,
     <<3530, 3530>>, <<3538, 3540>>, <<3542, 3542>>, <<3633, 3633>>,
     <<3636, 3642>>, <<3654, 3662>>, <<3761, 3761>>, <<3764, 3772>>,
     <<3782, 3782>>, <<3784, 3790>>, <<3864, 3865>>, <<3893, 3893>>,
     <<3895, 3895>>, <<3897, 3897>>, <<3953, 3966>>, <<3968, 3972>>,
     <<3974, 3975>>, <<3981, 3991>>, <<3993, 4028>>, <<4038, 4038>>,
     <<4141, 4144>>, <<4146, 4151>>, <<4153, 4154>>, <<4157, 4158>>,
     <<4184, 4185>>, <<4190, 4192>>, <<4209, 4212>>, <<4226, 4226>>,
     <<4229, 4230>>, <<4237, 4237>>, <<4253, 4253>>, <<4348, 4348>>,
     <<4957, 4959>>, <<5906, 5908>>, <<5938, 5939>>, <<5970, 5971>>,
     <<6002, 6003>>, <<6068, 6069>>, <<6071, 6077>>, <<6086, 6086>>,
     <<6089, 6099>>, <<6103, 6103>>, <<6109, 6109>>, <<6155, 6159>>,
     <<6211, 6211>>, <<6277, 6278>>, <<6313, 6313>>, <<6432, 6434>>,
     <<6439, 6440>>, <<6450, 6450>>, <<6457, 6459>>, <<6679, 6680>>,
     <<6683, 6683>>, <<6742, 6742>>, <<6744, 6750>>, <<6752, 6752>>,
     <<6754, 6754>>, <<6757, 6764>>, <<6771, 6780>>, <<6783, 6783>>,
     <<6823, 6823>>, <<6832, 6877>>, <<6880, 6891>>, <<6912, 6915>>,
     <<6964, 6964>>, <<6966, 6970>>, <<6972, 6972>>, <<6978, 6978>>,
     <<7019, 7027>>, <<7040, 7041>>, <<7074, 7077>>, <<7080, 7081>>,
     <<7083, 7085>>, <<7142, 7142>>, <<7144, 7145>>, <<7149, 7149>>,
     <<7151, 7153>>, <<7212, 7219>>, <<7222, 7223>>, <<7288, 7293>>,
     <<7376, 7378>>, <<7380, 7392>>, <<7394, 7400>>, <<7405, 7405>>,
     <<7412, 7412>>, <<7416, 7417>>, <<7468, 7530>>, <<7544, 7544>>,
     <<7579, 7679>>, <<8125, 8125>>, <<8127, 8129>>, <<8141, 8143>>,
     <<8157, 8159>>, <<8173, 8175>>, <<8189, 8190>>, <<8203, 8207>>,
     <<8216, 8217>>, <<8228, 8228>>, <<8231, 8231>>, <<8234, 8238>>,
     <<8288, 8292>>, <<8294, 8303>>, <<8305, 8305>>, <<8319, 8319>>,
     <<8336, 8348>>, <<8400, 8432>>, <<11388, 11389>>, <<11503, 11505>>,
     <<11631, 11631>>, <<11647, 11647>>, <<11744, 11775>>, <<11823, 11823>>,
     <<12293, 12293>>, <<12330, 12333>>, <<12337, 12341>>, <<12347, 12347>>,
     <<12441, 12446>>, <<12540, 12542>>, <<40981, 40981>>, <<42232, 42237>>,
     <<42508, 42508>>, <<42607, 42610>>, <<42612, 42621>>, <<42623, 42623>>,
     <<42652, 42655>>, <<42736, 42737>>, <<42752, 42785>>, <<42864, 42864>>,
     <<42888, 42890>>, <<42993, 42996>>, <<43000, 43001>>, <<43010, 43010>>,
     <<43014, 43014>>, <<43019, 43019>>, <<43045, 43046>>, <<43052, 43052>>,
     <<43204, 43205>>, <<43232, 43249>>, <<43263, 43263>>, <<43302, 43309>>,
     <<43335, 43345>>, <<43392, 43394>>, <<43443, 43443>>, <<43446, 43449>>,
     <<43452, 43453>>, <<43471, 43471>>, <<43493, 43494>>, <<43561, 43566>>,
     <<43569, 43570>>, <<43573, 43574>>, <<43587, 43587>>, <<43596, 43596>>,
     <<43632, 43632>>, <<43644, 43644>>, <<43696, 43696>>, <<43698, 43700>>,
     <<43703, 43704>>, <<43710, 43711>>, <<43713, 43713>>, <<43741, 43741>>,
     <<43756, 43757>>, <<43763, 43764>>, <<43766, 43766>>, <<43867, 43871>>,
     <<43881, 43883>>, <<44005, 44005>>, <<44008, 44008>>, <<44013, 44013>>,
     <<64286, 64286>>, <<64434, 64450>>, <<65024, 65039>>, <<65043, 65043>>,
     <<65056, 65071>>, <<65106, 65106>>, <<65109, 65109>>, <<65279, 65279>>,
     <<65287, 65287>>, <<65294, 65294>>, <<65306, 65306>>, <<65342, 65342>>,
     <<65344, 65344>>, <<65392, 65392>>, <<65438, 65439>>, <<65507, 65507>>,
     <<65529, 65531>>, <<66045, 66045>>, <<66272, 66272>>, <<66422, 66426>>,
     <<67456, 67461>>, <<67463, 67504>>, <<67506, 67514>>, <<68097, 68099>>,
     <<68101, 68102>>, <<68108, 68111>>, <<68152, 68154>>, <<68159, 68159>>,
     <<68325, 68326>>, <<68900, 68903>>, <<68942, 68942>>, <<68969, 68973>>,
     <<68975, 68975>>, <<69291, 69292>>, <<69317, 69317>>, <<69370, 69375>>,
     <<69446, 69456>>, <<69506, 69509>>, <<69633, 69633>>, <<69688, 69702>>,
     <<69744, 69744>>, <<69747, 69748>>, <<69759, 69761>>, <<69811, 69814>>,
     <<69817, 69818>>, <<69821, 69821>>, <<69826, 69826>>, <<69837, 69837>>,
     <<69888, 69890>>, <<69927, 69931>>, <<69933, 69940>>, <<70003, 70003>>,
     <<70016, 70017>>, <<70070, 70078>>, <<70089, 70092>>, <<70095, 70095>>,
     <<70191, 70193>>, <<70196, 70196>>, <<70198, 70199>>, <<70206, 70206>>,
     <<70209, 70209>>, <<70367, 70367>>, <<70371, 70378>>, <<70400, 70401>>,
     <<70459, 70460>>, <<70464, 70464>>, <<70502, 70508>>, <<70512, 70516>>,
     <<70587, 70592>>, <<70606, 70606>>, <<70608, 70608>>, <<70610, 70610>>,
     <<70625, 70626>>, <<70712, 70719>>, <<70722, 70724>>, <<70726, 70726>>,
     <<70750, 70750>>, <<70835, 70840>>, <<70842, 70842>>, <<70847, 70848>>,
     <<70850, 70851>>, <<71090, 71093>>, <<71100, 71101>>, <<71103, 71104>>,
     <<71132, 71133>>, <<71219, 71226>>, <<71229, 71229>>, <<71231, 71232>>,
     <<71339, 71339>>, <<71341, 71341>>, <<71344, 71349>>, <<71351, 71351>>,
     <<71453, 71453>>, <<71455, 71455>>, <<71458, 71461>>, <<71463, 71467>>,
     <<71727, 71735>>, <<71737, 71738>>, <<71995, 71996>>, <<71998, 71998>>,
     <<72003, 72003>>, <<72148, 72151>>, <<72154, 72155>>, <<72160, 72160>>,
     <<72193, 72202>>, <<72243, 72248>>, <<72251, 72254>>, <<72263, 72263>>,
     <<72273, 72278>>, <<72281, 72283>>, <<72330, 72342>>, <<72344, 72345>>,
     <<72544, 72544>>, <<72546, 72548>>, <<72550, 72550>>, <<72752, 72758>>,
     <<72760, 72765>>, <<72767, 72767>>, <<72850, 72871>>, <<72874, 72880>>,
     <<72882, 72883>>, <<72885, 72886>>, <<73009, 73014>>, <<73018, 73018>>,
     <<73020, 73021>>, <<73023, 73029>>, <<73031, 73031>>, <<73104, 73105>>,
     <<73109, 73109>>, <<73111, 73111>>, <<73177, 73177>>, <<73459, 73460>>,
     <<73472, 73473>>, <<73526, 73530>>, <<73536, 73536>>, <<73538, 73538>>,
     <<73562, 73562>>, <<78896, 78912>>, <<78919, 78933>>, <<90398, 90409>>,
     <<90413, 90415>>, <<92912, 92916>>, <<92976, 92982>>, <<92992, 92995>>,
     <<93504, 93506>>, <<93547, 93548>>, <<94031, 94031>>, <<94095, 94111>>,
     <<94176, 94177>>, <<94179, 94180>>, <<94194, 94195>>, <<110576, 110579>>,
     <<110581, 110587>>, <<110589, 110590>>, <<113821, 113822>>, <<113824, 113827>>,
     <<118528, 118573>>, <<118576, 118598>>, <<119143, 119145>>, <<119155, 119170>>,
     <<119173, 119179>>, <<119210, 119213>>, <<119362, 119364>>, <<121344, 121398>>,
     <<121403, 121452>>, <<121461, 121461>>, <<121476, 121476>>, <<121499, 121503>>,
     <<121505, 121519>>, <<122880, 122886>>, <<122888, 122904>>, <<122907, 122913>>,
     <<122915, 122916>>, <<122918, 122922>>, <<122928, 122989>>, <<123023, 123023>>,
     <<123184, 123197>>, <<123566, 123566>>, <<123628, 123631>>, <<124139, 124143>>,
     <<124398, 124399>>, <<124643, 124643>>, <<124646, 124646>>, <<124654, 124655>>,
     <<124661, 124661>>, <<124671, 124671>>, <<125136, 125142>>, <<125252, 125259>>,
     <<127995, 127999>>, <<917505, 917505>>, <<917536, 917631>>, <<917760, 917999>>}

Cased == UNION {{CodePoint(n) : n \in r[1]..r[2]} : r \in CasedRuns}

CaseIgnorable ==
    UNION {{CodePoint(n) : n \in r[1]..r[2]} : r \in CaseIgnorableRuns}

\* SpecialCasing.txt, Final_Sigma: the code point at i is preceded by a cased
\* letter and not followed by one, case-ignorable code points skipped.
FinalSigma(cps, i) ==
    LET before == {j \in 1..(i - 1) : cps[j] \notin CaseIgnorable}
        after == {j \in (i + 1)..Len(cps) : cps[j] \notin CaseIgnorable}
        nearestBefore == CHOOSE j \in before : \A k \in before : k <= j
        nearestAfter == CHOOSE j \in after : \A k \in after : j <= k
    IN  /\ before # {}
        /\ cps[nearestBefore] \in Cased
        /\ after = {} \/ cps[nearestAfter] \notin Cased

\* The lower case of the code point at i of cps: U+03A3 in final position
\* gives U+03C2, a code point without a mapping is kept.
LowerAt(cps, i) ==
    IF cps[i] = CodePoint(931) /\ FinalSigma(cps, i) THEN CodePoint(962)
    ELSE IF cps[i] \in DOMAIN Lowercase THEN Lowercase[cps[i]]
    ELSE cps[i]

RECURSIVE Flatten(_)
Flatten(seqs) ==
    IF seqs = <<>> THEN <<>> ELSE Head(seqs) \o Flatten(Tail(seqs))

\* String.prototype.toLowerCase
ToLowerCase(s) ==
    LET cps == CodePoints(s)
    IN  Flatten([i \in DOMAIN cps |-> LowerAt(cps, i)])

\* String.prototype.endsWith
EndsWith(s, suffix) ==
    /\ Len(s) >= Len(suffix)
    /\ SubSeq(s, Len(s) - Len(suffix) + 1, Len(s)) = suffix

(***************************************************************************)
(* The record of the latest handler run.                                   *)
(***************************************************************************)
NoOut == [msg |-> "", n |-> 0]

Ran(op, files, out) == [op |-> op, files |-> files, out |-> out]

\* The latest run of handler code when a request of it failed: error is what
\* axios rejected with, out.msg the message of the Error the service threw.
Threw(op, error, out) == [op |-> op, files |-> <<>>, out |-> out, error |-> error]

(***************************************************************************)
(* The conversation: handleSendMessage and handleClearChat.                *)
(***************************************************************************)
\* The texts typed into the input box: empty, blank (a space; a no-break
\* space and a vertical tab), plain, padded.
Inputs == {<<>>, <<" ">>, <<"U+00A0", "U+000B">>, <<"a">>, <<" ", "b", " ">>}

selectedColor == "blue"

\* App.js:117-123.  The timestamp, a rendering of the same clock, is left out.
\* A message has every field; isError FALSE and color "none" stand for a
\* field the code does not set.
UserMessage(text, t) ==
    [id |-> t, role |-> "user", content |-> JStr(text),
     color |-> selectedColor, isError |-> FALSE]

\* A variant of the reply that takes the clock's value as it is for its id.
AssistantMessageIdNow(content, t) ==
    [id |-> t, role |-> "assistant", content |-> content, color |-> "none",
     isError |-> FALSE]

\* App.js:143-148
AssistantMessage(content, t) ==
    [id |-> t + 1, role |-> "assistant", content |-> content,
     color |-> "none", isError |-> FALSE]

ErrorContent ==
    <<"S", "o", "r", "r", "y", ",", " ", "I", " ", "e", "n", "c", "o", "u", "n",
      "t", "e", "r", "e", "d", " ", "a", "n", " ", "e", "r", "r", "o", "r", ".",
      " ", "P", "l", "e", "a", "s", "e", " ", "t", "r", "y", " ", "a", "g", "a",
      "i", "n", ".">>

\* A variant of ErrorMessage that forgets the error flag.
ErrorMessageUnflagged(t) ==
    [id |-> t + 1, role |-> "assistant", content |-> JStr(ErrorContent),
     color |-> "none", isError |-> FALSE]

\* App.js:154-160
ErrorMessage(t) ==
    [id |-> t + 1, role |-> "assistant", content |-> JStr(ErrorContent),
     color |-> "none", isError |-> TRUE]

\* What a failed axios call carries: a response (with its status and the
\* error text of its body, "" when the body has none), a request that got no
\* response, or neither.
AxiosErrors ==
    {[response |-> TRUE, request |-> TRUE, status |-> 401, error |-> "Unauthorized"],
     [response |-> TRUE, request |-> TRUE, status |-> 401, error |-> ""],
     [response |-> TRUE, request |-> TRUE, status |-> 500, error |-> "boom"],
     [response |-> TRUE, request |-> TRUE, status |-> 500, error |-> ""],
     [response |-> FALSE, request |-> TRUE, status |-> 0, error |-> ""],
     [response |-> FALSE, request |-> FALSE, status |-> 0, error |-> ""]}

\* api.js:109-122 and api.js:190-199: the message of the Error thrown.
RelayErrorMessage(e) ==
    IF e.response
    THEN (IF e.error # "" THEN e.error ELSE "Server error occurred")
    ELSE IF e.request
         THEN "No response from server. Please check your connection."
         ELSE "Error sending request"

\* The bodies /api/rag-query answers with: an answer, an empty one, none.
RagResults == {[answer |-> JStr(<<"R">>)], [answer |-> JStr(<<>>)],
               [answer |-> Undefined]}

\* The bodies /api/chat answers with: a message, or none.
ChatResults == {[message |-> JStr(<<"C">>)], [message |-> Undefined]}

\* The ambient auth session the component runs in: the user signed in
\* through MSAL and the session holds an access token, or authentication is
\* bypassed and it holds none.
Sessions ==
    {[bypassAuth |-> FALSE, accessToken |-> JStr(<<"t">>)],
     [bypassAuth |-> TRUE, accessToken |-> Undefined]}

\* api.js:82-87: the headers the axios instance gives every request.
ApiHeaders == "Content-Type" :> "application/json"

\* api.js:100-106: the request posted to /api/chat.
ChatRequest(message, conversationHistory) ==
    [url |-> "/api/chat",
     headers |-> ApiHeaders,
     message |-> message,
     conversationHistory |->
         [i \in DOMAIN conversationHistory |->
             [role |-> conversationHistory[i].role,
              content |-> conversationHistory[i].content]]]

\* api.js:186-188: the body posted to /api/rag-query.
RagRequest(question) ==
    [url |-> "/api/rag-query", headers |-> ApiHeaders, question |-> question]

Remove(s, i) == SubSeq(s, 1, i - 1) \o SubSeq(s, i + 1, Len(s))

\* Variants of the guard: one that rejects only a blank input sent while
\* loading, one that does not look at isLoading.
SendRejectedBlankAndLoading == Trim(inputMessage) = <<>> /\ isLoading

SendRejectedBlankOnly == Trim(inputMessage) = <<>>

\* A variant of the guard that does not trim the input.
SendRejectedUntrimmed == inputMessage = <<>> \/ isLoading

\* App.js:115: the guard of handleSendMessage.
SendRejected == Trim(inputMessage) = <<>> \/ isLoading

\* App.js:112-131: the submit event, up to the await of ragQuery.
HandleSendMessage ==
    /\ IF SendRejected
       THEN /\ UNCHANGED <<messages, inputMessage, isLoading, sends>>
            /\ last' = Ran("sendRejected", <<>>, NoOut)
       ELSE /\ Len(messages) + 2 <= MaxMsgs
            /\ messages' = Append(messages, UserMessage(inputMessage, now))
            /\ inputMessage' = <<>>
            /\ isLoading' = TRUE
            /\ sends' = Append(sends,
                               [pc |-> "rag",
                                inputMessage |-> inputMessage,
                                messages |-> messages,
                                ragResult |-> Undefined,
                                request |-> RagRequest(inputMessage)])
            /\ last' = Ran("sendAccepted", <<>>, NoOut)
    /\ UNCHANGED now
    /\ UNCHANGED <<uploadVars, session>>

\* A variant of the fallback that posts the messages as they are now.
RagFallbackLiveMessages(i) ==
    /\ sends[i].pc = "rag"
    /\ \E r \in RagResults :
          /\ ~Truthy(r.answer)
          /\ sends' = [sends EXCEPT ![i].pc = "chat",
                                    ![i].ragResult = r,
                                    ![i].request =
                                        ChatRequest(sends[i].inputMessage, messages)]
    /\ last' = Ran("ragFallback", <<>>, NoOut)
    /\ UNCHANGED <<messages, inputMessage, isLoading, now>>
    /\ UNCHANGED <<uploadVars, session>>

\* App.js:131-141: ragQuery resolved without an answer; sendMessageToAI is
\* called with the input and the messages the run captured.
RagFallback(i) ==
    /\ sends[i].pc = "rag"
    /\ \E r \in RagResults :
          /\ ~Truthy(r.answer)
          /\ sends' = [sends EXCEPT ![i].pc = "chat",
                                    ![i].ragResult = r,
                                    ![i].request =
                                        ChatRequest(sends[i].inputMessage,
                                                    sends[i].messages)]
    /\ last' = Ran("ragFallback", <<>>, NoOut)
    /\ UNCHANGED <<messages, inputMessage, isLoading, now>>
    /\ UNCHANGED <<uploadVars, session>>

\* App.js:131-150, 163-165: ragQuery resolved with an answer.
RagAnswered(i) ==
    /\ sends[i].pc = "rag"
    /\ \E r \in RagResults :
          /\ Truthy(r.answer)
          /\ messages' = Append(messages, AssistantMessage(r.answer, now))
    /\ isLoading' = FALSE
    /\ sends' = Remove(sends, i)
    /\ last' = Ran("sendReplied", <<>>, NoOut)
    /\ UNCHANGED <<inputMessage, now>>
    /\ UNCHANGED <<uploadVars, session>>

\* A variant of the success path that builds the new conversation from the
\* messages the run captured, not from the current ones.
ChatAnsweredStaleClosure(i) ==
    /\ sends[i].pc = "chat"
    /\ \E r \in ChatResults :
          messages' = Append(sends[i].messages, AssistantMessage(r.message, now))
    /\ isLoading' = FALSE
    /\ sends' = Remove(sends, i)
    /\ last' = Ran("sendReplied", <<>>, NoOut)
    /\ UNCHANGED <<inputMessage, now>>
    /\ UNCHANGED <<uploadVars, session>>

\* App.js:139-150, 163-165: sendMessageToAI resolved.
ChatAnswered(i) ==
    /\ sends[i].pc = "chat"
    /\ \E r \in ChatResults :
          messages' = Append(messages, AssistantMessage(r.message, now))
    /\ isLoading' = FALSE
    /\ sends' = Remove(sends, i)
    /\ last' = Ran("sendReplied", <<>>, NoOut)
    /\ UNCHANGED <<inputMessage, now>>
    /\ UNCHANGED <<uploadVars, session>>

\* A variant of the catch block that puts the error message in the place of
\* the latest message.
SendFailedRollsBack(i) ==
    /\ sends[i].pc \in {"rag", "chat"}
    /\ \E e \in AxiosErrors :
          last' = Threw("sendFailed", e, [msg |-> RelayErrorMessage(e), n |-> 0])
    /\ messages' = Append(SubSeq(messages, 1, Len(messages) - 1), ErrorMessage(now))
    /\ isLoading' = FALSE
    /\ sends' = Remove(sends, i)
    /\ UNCHANGED <<inputMessage, now>>
    /\ UNCHANGED <<uploadVars, session>>

\* A variant of the failure path without the finally block.
SendFailedKeepsLoading(i) ==
    /\ sends[i].pc \in {"rag", "chat"}
    /\ \E e \in AxiosErrors :
          last' = Threw("sendFailed", e, [msg |-> RelayErrorMessage(e), n |-> 0])
    /\ messages' = Append(messages, ErrorMessage(now))
    /\ sends' = Remove(sends, i)
    /\ UNCHANGED <<inputMessage, isLoading, now>>
    /\ UNCHANGED <<uploadVars, session>>

\* A variant of the catch block that, when ragQuery threw, goes on to
\* sendMessageToAI as if it had returned no answer.
SendFailedRetries(i) ==
    /\ sends[i].pc \in {"rag", "chat"}
    /\ \E e \in AxiosErrors :
          last' = Threw("sendFailed", e, [msg |-> RelayErrorMessage(e), n |-> 0])
    /\ IF sends[i].pc = "rag"
       THEN /\ sends' = [sends EXCEPT ![i].pc = "chat",
                                      ![i].request =
                                          ChatRequest(sends[i].inputMessage,
                                                      sends[i].messages)]
            /\ UNCHANGED <<messages, isLoading>>
       ELSE /\ messages' = Append(messages, ErrorMessage(now))
            /\ isLoading' = FALSE
            /\ sends' = Remove(sends, i)
    /\ UNCHANGED <<inputMessage, now>>
    /\ UNCHANGED <<uploadVars, session>>

\* App.js:151-165: ragQuery or sendMessageToAI threw.
SendFailed(i) ==
    /\ sends[i].pc \in {"rag", "chat"}
    /\ \E e \in AxiosErrors :
          last' = Threw("sendFailed", e, [msg |-> RelayErrorMessage(e), n |-> 0])
    /\ messages' = Append(messages, ErrorMessage(now))
    /\ isLoading' = FALSE
    /\ sends' = Remove(sends, i)
    /\ UNCHANGED <<inputMessage, now>>
    /\ UNCHANGED <<uploadVars, session>>

\* A variant of handleClearChat that drops only the latest message.
HandleClearChatDropsLast ==
    /\ messages' = SubSeq(messages, 1, Len(messages) - 1)
    /\ last' = Ran("clearChat", <<>>, NoOut)
    /\ UNCHANGED <<inputMessage, isLoading, sends, now>>
    /\ UNCHANGED <<uploadVars, session>>

\* App.js:168-170
HandleClearChat ==
    /\ messages' = <<>>
    /\ last' = Ran("clearChat", <<>>, NoOut)
    /\ UNCHANGED <<inputMessage, isLoading, sends, now>>
    /\ UNCHANGED <<uploadVars, session>>

\* App.js:409: the input's onChange.
HandleInputChange(value) ==
    /\ inputMessage' = value
    /\ last' = Ran("inputChange", <<>>, NoOut)
    /\ UNCHANGED <<messages, isLoading, sends, now>>
    /\ UNCHANGED <<uploadVars, session>>

\* The wall clock advances between two runs of handler code.
Tick ==
    /\ now < MaxClock
    /\ now' = now + 1
    /\ last' = Ran("tick", <<>>, NoOut)
    /\ UNCHANGED <<messages, inputMessage, isLoading, sends>>
    /\ UNCHANGED <<uploadVars, session>>

SendSettles ==
    \E i \in DOMAIN sends :
        RagFallback(i) \/ RagAnswered(i) \/ ChatAnswered(i) \/ SendFailed(i)

NextChat ==
    \/ HandleSendMessage
    \/ \E i \in DOMAIN sends : RagFallback(i)
    \/ \E i \in DOMAIN sends : RagAnswered(i)
    \/ \E i \in DOMAIN sends : ChatAnswered(i)
    \/ \E i \in DOMAIN sends : SendFailed(i)
    \/ HandleClearChat
    \/ \E value \in Inputs : HandleInputChange(value)
    \/ Tick

\* App.js:201-209: the "Sign Out" button.  With authentication bypassed the
\* bypass is switched off; otherwise the MSAL instance logs the user out and
\* the session holds no access token any more.
HandleSignOut ==
    /\ session' = IF session.bypassAuth
                  THEN [session EXCEPT !.bypassAuth = FALSE]
                  ELSE [session EXCEPT !.accessToken = Undefined]
    /\ last' = Ran("signOut", <<>>, NoOut)
    /\ UNCHANGED <<chatVars, uploadVars>>

NextAuth == HandleSignOut

(***************************************************************************)
(* Upload staging: the two staged lists, the two uploaded lists and the    *)
(* handlers that stage and upload.                                         *)
(***************************************************************************)
\* A File object of a picker or a drop: its name and its contents.
File(name) == [name |-> name, kind |-> "File"]

CsvLower == <<"a", ".", "c", "s", "v">>

\* A name in capitals, the first of them outside ASCII (U+00C9).
CsvUpper == <<"U+00C9", ".", "C", "S", "V">>

NotCsv == <<"c", "s", "v", ".", "t", "x", "t">>

Pdf == <<"p", ".", "p", "d", "f">>

\* The files offered to the client data zone and to the policy zone.
ClientFileSet == {File(CsvLower), File(CsvUpper), File(NotCsv)}

PolicyFileSet == {File(Pdf), File(NotCsv)}

\* The FileList of one change or drop event.
FileLists(fileSet) == UNION {[1..k -> fileSet] : k \in 0..MaxStaged}

\* The model's bounds: the files staged at a time, over both zones, and the
\* uploads in flight at a time.
Staged == Len(clientFiles) + Len(policyFiles)

InFlight == Len(clientUploads) + Len(policyUploads)

DotCsv == <<".", "c", "s", "v">>

\* A variant of the filter that compares the name as it is written.
CsvFilesCaseSensitive(files) ==
    SelectSeq(files, LAMBDA f : EndsWith(f.name, DotCsv))

\* App.js:182: the filter of handleClientDrop.
CsvFiles(files) ==
    SelectSeq(files, LAMBDA f : EndsWith(ToLowerCase(f.name), DotCsv))

\* App.js:172-175
HandleClientFileChange(files) ==
    /\ Staged + Len(files) <= MaxStaged
    /\ clientFiles' = clientFiles \o files
    /\ last' = Ran("clientFileChange", files, NoOut)
    /\ UNCHANGED <<uploadedClientFiles, clientDragActive, policyFiles,
                   uploadedPolicyFiles, clientUploads, policyUploads, fetching>>
    /\ UNCHANGED <<chatVars, session>>

\* App.js:177-184
HandleClientDrop(files) ==
    /\ Staged + Len(files) <= MaxStaged
    /\ clientDragActive' = FALSE
    /\ clientFiles' = IF Len(CsvFiles(files)) # 0
                      THEN clientFiles \o CsvFiles(files)
                      ELSE clientFiles
    /\ last' = Ran("clientDrop", files, NoOut)
    /\ UNCHANGED <<uploadedClientFiles, policyFiles, uploadedPolicyFiles,
                   clientUploads, policyUploads, fetching>>
    /\ UNCHANGED <<chatVars, session>>

\* App.js:186-189
HandleClientDragOver ==
    /\ clientDragActive' = TRUE
    /\ last' = Ran("clientDragOver", <<>>, NoOut)
    /\ UNCHANGED <<clientFiles, uploadedClientFiles, policyFiles,
                   uploadedPolicyFiles, clientUploads, policyUploads, fetching>>
    /\ UNCHANGED <<chatVars, session>>

\* App.js:191-194
HandleClientDragLeave ==
    /\ clientDragActive' = FALSE
    /\ last' = Ran("clientDragLeave", <<>>, NoOut)
    /\ UNCHANGED <<clientFiles, uploadedClientFiles, policyFiles,
                   uploadedPolicyFiles, clientUploads, policyUploads, fetching>>
    /\ UNCHANGED <<chatVars, session>>

\* App.js:196-199
HandlePolicyFileChange(files) ==
    /\ Len(clientFiles) + Len(files) <= MaxStaged
    /\ policyFiles' = files
    /\ last' = Ran("policyFileChange", files, NoOut)
    /\ UNCHANGED <<clientFiles, uploadedClientFiles, clientDragActive,
                   uploadedPolicyFiles, clientUploads, policyUploads, fetching>>
    /\ UNCHANGED <<chatVars, session>>

\* App.js:319-323
PolicyDrop(files) ==
    /\ Staged + Len(files) <= MaxStaged
    /\ policyFiles' = IF Len(files) # 0 THEN policyFiles \o files ELSE policyFiles
    /\ last' = Ran("policyDrop", files, NoOut)
    /\ UNCHANGED <<clientFiles, uploadedClientFiles, clientDragActive,
                   uploadedPolicyFiles, clientUploads, policyUploads, fetching>>
    /\ UNCHANGED <<chatVars, session>>

\* The bodies /api/upload-excel-direct answers with; 0 is a count the body
\* does not carry.
ExcelResults == {[rowsProcessed |-> 10, rowsQueued |-> 0],
                 [rowsProcessed |-> 0, rowsQueued |-> 7]}

\* App.js:75
ClientUploadedAlert(result) ==
    [msg |-> "Uploaded ${rows} rows to the server.",
     n |-> IF result.rowsProcessed # 0 THEN result.rowsProcessed
                                       ELSE result.rowsQueued]

\* api.js:173-180: the message of the Error uploadExcelFile throws.
ExcelErrorMessage(e) ==
    IF e.response THEN e.error ELSE "Unable to upload file."

\* App.js:84 and App.js:108: alert(error.message || ...)
FailureAlert(message) ==
    [msg |-> IF message # "" THEN message ELSE "Upload failed. See console.",
     n |-> 0]

\* App.js:62-73, api.js:156-170: the click, up to the await of uploadExcelFile.
HandleClientFileUpload ==
    /\ IF Len(clientFiles) = 0
       THEN /\ last' = Ran("clientUploadEmpty", <<>>,
                           [msg |-> "Please select a CSV/XLSX file first.", n |-> 0])
            /\ UNCHANGED clientUploads
       ELSE /\ InFlight < MaxInFlight
            /\ clientUploads' = Append(clientUploads,
                                       [file |-> clientFiles[1],
                                        clientFiles |-> clientFiles])
            /\ last' = Ran("clientUploadStarted", <<>>, NoOut)
    /\ UNCHANGED <<clientFiles, uploadedClientFiles, clientDragActive, policyFiles,
                   uploadedPolicyFiles, policyUploads, fetching>>
    /\ UNCHANGED <<chatVars, session>>

\* A variant of the success path that keeps the selection.
ClientUploadResolvedKeepsStaged(i) ==
    /\ \E result \in ExcelResults :
          last' = Ran("clientUploadResolved", <<>>, ClientUploadedAlert(result))
    /\ uploadedClientFiles' = <<clientUploads[i].file>>
    /\ clientUploads' = Remove(clientUploads, i)
    /\ UNCHANGED <<clientFiles, clientDragActive, policyFiles, uploadedPolicyFiles,
                   policyUploads, fetching>>
    /\ UNCHANGED <<chatVars, session>>

\* App.js:73-80: uploadExcelFile resolved.
ClientUploadResolved(i) ==
    /\ \E result \in ExcelResults :
          last' = Ran("clientUploadResolved", <<>>, ClientUploadedAlert(result))
    /\ uploadedClientFiles' = <<clientUploads[i].file>>
    /\ clientFiles' = <<>>
    /\ clientUploads' = Remove(clientUploads, i)
    /\ UNCHANGED <<clientDragActive, policyFiles, uploadedPolicyFiles,
                   policyUploads, fetching>>
    /\ UNCHANGED <<chatVars, session>>

\* A variant of the catch block that clears the selection as the success
\* path does.
ClientUploadFailedClearsStaged(i) ==
    /\ \E e \in AxiosErrors :
          last' = Ran("clientUploadFailed", <<>>, FailureAlert(ExcelErrorMessage(e)))
    /\ clientFiles' = <<>>
    /\ clientUploads' = Remove(clientUploads, i)
    /\ UNCHANGED <<uploadedClientFiles, clientDragActive, policyFiles,
                   uploadedPolicyFiles, policyUploads, fetching>>
    /\ UNCHANGED <<chatVars, session>>

\* App.js:82-85: uploadExcelFile threw.
ClientUploadFailed(i) ==
    /\ \E e \in AxiosErrors :
          last' = Ran("clientUploadFailed", <<>>, FailureAlert(ExcelErrorMessage(e)))
    /\ clientUploads' = Remove(clientUploads, i)
    /\ UNCHANGED <<clientFiles, uploadedClientFiles, clientDragActive, policyFiles,
                   uploadedPolicyFiles, policyUploads, fetching>>
    /\ UNCHANGED <<chatVars, session>>

\* What /api/upload-policy-documents answers with.
PolicyResults == {[filesProcessed |-> 1], [filesProcessed |-> 2]}

\* The messages of the errors uploadPolicyDocuments throws: one with a text,
\* one without.
PolicyErrorMessages == {"Policy upload failed", ""}

\* App.js:99
PolicyUploadedAlert(result) ==
    [msg |-> "Uploaded ${files} policy document(s) to the database.",
     n |-> result.filesProcessed]

\* App.js:88-97: the click, up to the await of uploadPolicyDocuments.
HandlePolicyDocumentUpload ==
    /\ IF Len(policyFiles) = 0
       THEN /\ last' = Ran("policyUploadEmpty", <<>>,
                           [msg |-> "Please select policy document files first.",
                            n |-> 0])
            /\ UNCHANGED policyUploads
       ELSE /\ InFlight < MaxInFlight
            /\ policyUploads' = Append(policyUploads, [policyFiles |-> policyFiles])
            /\ last' = Ran("policyUploadStarted", <<>>, NoOut)
    /\ UNCHANGED <<clientFiles, uploadedClientFiles, clientDragActive, policyFiles,
                   uploadedPolicyFiles, clientUploads, fetching>>
    /\ UNCHANGED <<chatVars, session>>

\* App.js:97-104: uploadPolicyDocuments resolved.
PolicyUploadResolved(i) ==
    /\ \E result \in PolicyResults :
          last' = Ran("policyUploadResolved", <<>>, PolicyUploadedAlert(result))
    /\ uploadedPolicyFiles' = policyUploads[i].policyFiles
    /\ policyFiles' = <<>>
    /\ policyUploads' = Remove(policyUploads, i)
    /\ UNCHANGED <<clientFiles, uploadedClientFiles, clientDragActive,
                   clientUploads, fetching>>
    /\ UNCHANGED <<chatVars, session>>

\* App.js:106-109: uploadPolicyDocuments threw.
PolicyUploadFailed(i) ==
    /\ \E message \in PolicyErrorMessages :
          last' = Ran("policyUploadFailed", <<>>, FailureAlert(message))
    /\ policyUploads' = Remove(policyUploads, i)
    /\ UNCHANGED <<clientFiles, uploadedClientFiles, clientDragActive, policyFiles,
                   uploadedPolicyFiles, clientUploads, fetching>>
    /\ UNCHANGED <<chatVars, session>>

\* What GET /api/get-uploaded-files answers with: per category, the entries
\* of the files the server holds.
ServerEntry(name) == [name |-> name, kind |-> "entry"]

UploadedFilesResults ==
    [csvFiles : {<<>>, <<ServerEntry(CsvLower)>>},
     policyFiles : {<<>>, <<ServerEntry(Pdf)>>}]

\* App.js:42 and App.js:45: f => ({ name: f.name })
NameRecord(f) == [name |-> f.name, kind |-> "record"]

\* App.js:37-49: getUploadedFiles resolved in the mount effect.
FetchResolved ==
    /\ fetching
    /\ fetching' = FALSE
    /\ \E files \in UploadedFilesResults :
          /\ uploadedClientFiles' =
                IF Len(files.csvFiles) > 0
                THEN [i \in DOMAIN files.csvFiles |-> NameRecord(files.csvFiles[i])]
                ELSE uploadedClientFiles
          /\ uploadedPolicyFiles' =
                IF Len(files.policyFiles) > 0
                THEN [i \in DOMAIN files.policyFiles |->
                         NameRecord(files.policyFiles[i])]
                ELSE uploadedPolicyFiles
          /\ last' = Ran("fetchResolved", files, NoOut)
    /\ UNCHANGED <<clientFiles, clientDragActive, policyFiles, clientUploads,
                   policyUploads>>
    /\ UNCHANGED <<chatVars, session>>

\* A variant of the render that shows the uploaded list whatever is staged.
UploadedViewAlways(uploaded, staged) == uploaded

\* App.js:302-311 and 366-375: the "Uploaded files:" list of a category is
\* rendered when the uploaded list has an entry and nothing is staged.
UploadedView(uploaded, staged) ==
    IF Len(uploaded) > 0 /\ Len(staged) = 0 THEN uploaded ELSE <<>>

\* App.js:284-290 and 347-353: the list of selected files of a category is
\* rendered when something is staged.
StagedView(staged) == IF Len(staged) > 0 THEN staged ELSE <<>>

NextClient ==
    \/ \E files \in FileLists(ClientFileSet) : HandleClientFileChange(files)
    \/ \E files \in FileLists(ClientFileSet) : HandleClientDrop(files)
    \/ HandleClientFileUpload
    \/ \E i \in DOMAIN clientUploads : ClientUploadResolved(i)
    \/ \E i \in DOMAIN clientUploads : ClientUploadFailed(i)
    \/ FetchResolved

NextPolicy ==
    \/ \E files \in FileLists(PolicyFileSet) : HandlePolicyFileChange(files)
    \/ \E files \in FileLists(PolicyFileSet) : PolicyDrop(files)
    \/ HandlePolicyDocumentUpload
    \/ \E i \in DOMAIN policyUploads : PolicyUploadResolved(i)
    \/ \E i \in DOMAIN policyUploads : PolicyUploadFailed(i)
    \/ FetchResolved

NextUpload == NextClient \/ NextPolicy

\* The drag-over highlight of the client data zone.
NextDrag == HandleClientDragOver \/ HandleClientDragLeave

Next == NextChat \/ NextUpload \/ NextDrag \/ NextAuth

Init ==
    /\ messages = <<>>
    /\ inputMessage = <<>>
    /\ isLoading = FALSE
    /\ sends = <<>>
    /\ now = 0
    /\ clientFiles = <<>>
    /\ uploadedClientFiles = <<>>
    /\ clientDragActive = FALSE
    /\ policyFiles = <<>>
    /\ uploadedPolicyFiles = <<>>
    /\ clientUploads = <<>>
    /\ policyUploads = <<>>
    /\ fetching = TRUE
    /\ session \in Sessions
    /\ last = Ran("mount", <<>>, NoOut)

SpecChat == Init /\ [][NextChat]_vars

\* A request in flight settles: axios resolves or rejects its promise, and the
\* event loop then runs the rest of the handler.
FairSpecChat == SpecChat /\ WF_vars(SendSettles)

SpecClient == Init /\ [][NextClient]_vars

SpecPolicy == Init /\ [][NextPolicy]_vars

SpecUpload == Init /\ [][NextUpload]_vars

\* The conversation with the sign-out.
SpecRelay == Init /\ [][NextChat \/ NextAuth]_vars

\* The handler runs that issue a request or end one, of the chat and of the
\* two upload zones together, with one text to type and one file to pick in
\* each zone.
NextRequests ==
    \/ HandleInputChange(<<"a">>)
    \/ HandleSendMessage
    \/ \E i \in DOMAIN sends : RagFallback(i)
    \/ \E i \in DOMAIN sends : RagAnswered(i)
    \/ \E i \in DOMAIN sends : ChatAnswered(i)
    \/ \E i \in DOMAIN sends : SendFailed(i)
    \/ HandleClientFileChange(<<File(CsvLower)>>)
    \/ HandleClientFileUpload
    \/ \E i \in DOMAIN clientUploads : ClientUploadResolved(i)
    \/ \E i \in DOMAIN clientUploads : ClientUploadFailed(i)
    \/ HandlePolicyFileChange(<<File(Pdf)>>)
    \/ HandlePolicyDocumentUpload
    \/ \E i \in DOMAIN policyUploads : PolicyUploadResolved(i)
    \/ \E i \in DOMAIN policyUploads : PolicyUploadFailed(i)

SpecRequests == Init /\ [][NextRequests]_vars

Spec == Init /\ [][Next]_vars

(***************************************************************************)
(* The claims about the conversation.                                      *)
(***************************************************************************)
\* The requests of the sends in flight.
Requests == [i \in DOMAIN sends |-> sends[i].request]

\* The input is empty after trimming: it holds white space only.
Blank(text) == \A k \in DOMAIN text : text[k] \in WhiteSpace

\* A step that is a run of handleSendMessage.
SendInvoked == last'.op \in {"sendAccepted", "sendRejected"}

\* A step that ends a send: the reply or the error message is appended.
SendEnded == last'.op \in {"sendReplied", "sendFailed"}

C1_Accepted ==
    (SendInvoked /\ ~Blank(inputMessage) /\ ~isLoading)
        => /\ last'.op = "sendAccepted"
           /\ Len(messages') = Len(messages) + 1
           /\ SubSeq(messages', 1, Len(messages)) = messages
           /\ messages'[Len(messages')].role = "user"
           /\ messages'[Len(messages')].content = JStr(inputMessage)
           /\ Len(sends') = Len(sends) + 1

C1_Ended ==
    SendEnded
        => /\ Len(sends') = Len(sends) - 1
           /\ Len(messages') = Len(messages) + 1
           /\ SubSeq(messages', 1, Len(messages)) = messages
           /\ messages'[Len(messages')].role = "assistant"
           /\ messages'[Len(messages')].isError = (last'.op = "sendFailed")

C1_NoOtherAppend ==
    (Len(messages') > Len(messages) \/ Len(sends') # Len(sends))
        => (last'.op = "sendAccepted" \/ SendEnded)

\* C1: every send accepted by handleSendMessage (input not blank, isLoading
\* false) appends exactly one user message at once, and eventually exactly
\* one further message is appended for it: an assistant message without
\* isError when the relay calls succeed, one with isError when a call fails.
\* No other step appends a message or ends a send.
C1_SendAppendsUserThenOneReply ==
    /\ [][C1_Accepted /\ C1_Ended /\ C1_NoOtherAppend]_vars
    /\ (sends # <<>>) ~> (sends = <<>>)

C1_Witness ==
    /\ last.op = "sendReplied"
    /\ sends = <<>>
    /\ Len(messages) = 2
    /\ messages[1].role = "user"
    /\ messages[2].role = "assistant"
    /\ ~messages[2].isError

\* C2: invoking handleSendMessage while isLoading is true changes nothing:
\* the conversation, the input text and isLoading stay as they are and no
\* request is issued.
C2_SendWhileLoadingIsNoOp ==
    [][(SendInvoked /\ isLoading)
          => /\ messages' = messages
             /\ inputMessage' = inputMessage
             /\ isLoading' = isLoading
             /\ Requests' = Requests]_vars

C2_Witness ==
    /\ last.op = "sendRejected"
    /\ isLoading
    /\ ~Blank(inputMessage)
    /\ Len(messages) = 1
    /\ Len(sends) = 1

C3_DroppedNotQueued ==
    /\ (SendInvoked /\ sends # <<>>) => (sends' = sends /\ messages' = messages)
    /\ SendEnded => sends' = <<>>

\* C3: at most one chat send is outstanding at any time; a send attempted
\* while one is outstanding is dropped, and the end of the outstanding send
\* starts no other.
C3_OneSendOutstanding ==
    /\ [](Len(sends) <= 1)
    /\ [][C3_DroppedNotQueued]_vars

C3_Witness ==
    /\ last.op = "sendRejected"
    /\ ~Blank(inputMessage)
    /\ Len(sends) = 1
    /\ sends[1].pc = "chat"

\* C4: after handleClearChat the conversation is empty, whatever it held and
\* whether or not a send is in flight.
C4_ClearEmptiesConversation ==
    [][last'.op = "clearChat" => messages' = <<>>]_vars

C4_Witness ==
    /\ last.op = "clearChat"
    /\ messages = <<>>
    /\ sends # <<>>
    /\ now > 0

\* C5: when a send fails, every message of the conversation, the user message
\* of that send included, stays where it is, and one assistant message with
\* isError is appended after them.
C5_FailureKeepsMessages ==
    [][last'.op = "sendFailed"
          => /\ messages' = Append(messages, messages'[Len(messages')])
             /\ messages'[Len(messages')].role = "assistant"
             /\ messages'[Len(messages')].isError
             /\ messages'[Len(messages')].content = JStr(ErrorContent)]_vars

C5_Witness ==
    /\ last.op = "sendFailed"
    /\ Len(messages) = 2
    /\ messages[1].role = "user"
    /\ messages[1].content = JStr(<<" ", "b", " ">>)
    /\ messages[2].isError

(***************************************************************************)
(* The claims about upload staging.                                        *)
(***************************************************************************)
Names(files) == [k \in DOMAIN files |-> files[k].name]

IsPrefix(s, t) == Len(s) <= Len(t) /\ SubSeq(t, 1, Len(s)) = s

\* The step ends the client upload i / the policy upload i.
ClientUploadEnds(i) == clientUploads' = Remove(clientUploads, i)

PolicyUploadEnds(i) == policyUploads' = Remove(policyUploads, i)

C6_Client ==
    last'.op = "clientUploadResolved"
        => \E i \in DOMAIN clientUploads :
              /\ ClientUploadEnds(i)
              /\ uploadedClientFiles' = clientUploads[i].clientFiles
              /\ clientFiles' = <<>>

C6_Policy ==
    last'.op = "policyUploadResolved"
        => \E i \in DOMAIN policyUploads :
              /\ PolicyUploadEnds(i)
              /\ uploadedPolicyFiles' = policyUploads[i].policyFiles
              /\ policyFiles' = <<>>

\* C6: a successful upload, of client data or of policy documents, makes the
\* uploaded list the whole list that was staged when the upload started and
\* leaves the staged list empty.
C6_UploadMovesWholeStagedList == [][C6_Client /\ C6_Policy]_vars

\* The policy half of C6, which handlePolicyDocumentUpload meets.
C6_PolicyUploadMovesWholeStagedList == [][C6_Policy]_vars

C7_Client ==
    last'.op = "clientUploadFailed"
        => /\ clientFiles' = clientFiles
           /\ uploadedClientFiles' = uploadedClientFiles
           /\ last'.out.msg # ""

C7_Policy ==
    last'.op = "policyUploadFailed"
        => /\ policyFiles' = policyFiles
           /\ uploadedPolicyFiles' = uploadedPolicyFiles
           /\ last'.out.msg # ""

\* C7: a failed upload, of either category, leaves the staged list and the
\* uploaded list of its category as they are and shows an alert with a text.
C7_FailedUploadChangesNothing == [][C7_Client /\ C7_Policy]_vars

C7_Witness ==
    /\ last.op = "clientUploadFailed"
    /\ last.out.msg = "Upload failed. See console."
    /\ Len(clientFiles) = 2
    /\ uploadedClientFiles # <<>>

\* C8: with ["a.csv"] staged when the upload starts and when it succeeds, the
\* uploaded client list becomes ["a.csv"] and the staged list becomes empty.
C8_OneStagedFileUploaded ==
    [][(/\ last'.op = "clientUploadResolved"
        /\ Names(clientFiles) = <<CsvLower>>
        /\ \E i \in DOMAIN clientUploads :
              /\ ClientUploadEnds(i)
              /\ Names(clientUploads[i].clientFiles) = <<CsvLower>>)
          => /\ Names(uploadedClientFiles') = <<CsvLower>>
             /\ clientFiles' = <<>>]_vars

C8_Witness ==
    /\ last.op = "clientUploadResolved"
    /\ last.out.n = 10
    /\ Names(uploadedClientFiles) = <<CsvLower>>
    /\ clientFiles = <<>>
    /\ clientUploads = <<>>

\* A name that ends in .csv, in any mix of cases.
IsCsvName(name) ==
    /\ Len(name) >= 4
    /\ name[Len(name) - 3] = "."
    /\ name[Len(name) - 2] \in {"c", "C"}
    /\ name[Len(name) - 1] \in {"s", "S"}
    /\ name[Len(name)] \in {"v", "V"}

\* C9: a drop on the client data zone appends to the staged client list the
\* dropped files whose name ends in .csv in any case, in drop order, and
\* nothing else; the files staged before stay.
C9_DropStagesCsvOnly ==
    [][last'.op = "clientDrop"
          => clientFiles' =
                clientFiles \o SelectSeq(last'.files, LAMBDA f : IsCsvName(f.name))]_vars

C9_Witness ==
    /\ last.op = "clientDrop"
    /\ Names(last.files) = <<CsvUpper>>
    /\ Names(clientFiles) = <<CsvLower, CsvUpper>>

StagingOps == {"clientFileChange", "clientDrop", "policyFileChange", "policyDrop"}

\* C10: every file selection and every drop keeps the files staged before and
\* only adds to them; a staged list shrinks on a successful upload only.
C10_StagingAccumulates ==
    [][/\ last'.op \in StagingOps
          => (IsPrefix(clientFiles, clientFiles') /\ IsPrefix(policyFiles, policyFiles'))
       /\ Len(clientFiles') < Len(clientFiles) => last'.op = "clientUploadResolved"
       /\ Len(policyFiles') < Len(policyFiles) => last'.op = "policyUploadResolved"]_vars

(***************************************************************************)
(* Further claims about the conversation.                                  *)
(***************************************************************************)
\* C11: between clears the conversation is append-only: every step that is
\* not a run of handleClearChat leaves the messages as they are or appends
\* one message at the end, so the old sequence is a prefix of the new one and
\* no message is edited, reordered or deleted.
C11_AppendOnlyBetweenClears ==
    [][last'.op # "clearChat"
          => \/ messages' = messages
             \/ /\ Len(messages') = Len(messages) + 1
                /\ SubSeq(messages', 1, Len(messages)) = messages]_vars

C11_Witness ==
    /\ last.op = "sendReplied"
    /\ Len(messages) = 4
    /\ messages[2].isError
    /\ ~messages[4].isError

(***************************************************************************)
(* Further claims about the uploads.                                       *)
(***************************************************************************)
InList(f, files) == \E k \in DOMAIN files : files[k] = f

\* On the screen, at most one of the two lists of a category has an entry.
C12_ViewsExclusive ==
    /\ StagedView(clientFiles) = <<>>
           \/ UploadedView(uploadedClientFiles, clientFiles) = <<>>
    /\ StagedView(policyFiles) = <<>>
           \/ UploadedView(uploadedPolicyFiles, policyFiles) = <<>>

\* The step that ends an upload with success shows every file of the request
\* in the uploaded list and none of them in the staged list.
C12_ClientSwap ==
    last'.op = "clientUploadResolved"
        => \E i \in DOMAIN clientUploads :
              /\ ClientUploadEnds(i)
              /\ InList(clientUploads[i].file,
                        UploadedView(uploadedClientFiles', clientFiles'))
              /\ ~InList(clientUploads[i].file, StagedView(clientFiles'))

C12_PolicySwap ==
    last'.op = "policyUploadResolved"
        => \E i \in DOMAIN policyUploads :
              /\ PolicyUploadEnds(i)
              /\ \A k \in DOMAIN policyUploads[i].policyFiles :
                    LET f == policyUploads[i].policyFiles[k]
                    IN  /\ InList(f, UploadedView(uploadedPolicyFiles', policyFiles'))
                        /\ ~InList(f, StagedView(policyFiles'))

\* C12: for each category the staged list and the uploaded list, as shown to
\* the user, are never both non-empty, and a successful upload swaps them in
\* one step: right after it every uploaded file is shown in the uploaded
\* list and in the staged list no more, with no state in between where it is
\* in neither or in both.
C12_StagedAndUploadedExclusive ==
    /\ []C12_ViewsExclusive
    /\ [][C12_ClientSwap /\ C12_PolicySwap]_vars

C12_Witness ==
    /\ last.op = "policyUploadResolved"
    /\ Len(uploadedPolicyFiles) = 1
    /\ policyFiles = <<>>
    /\ uploadedClientFiles # <<>>
    /\ clientFiles # <<>>

(***************************************************************************)
(* The claims about the relay client.                                      *)
(***************************************************************************)
\* The four kinds of failure, by what happened to the request.
FailureKind(e) ==
    IF e.response
    THEN (IF e.status = 401 THEN "AuthFailure" ELSE "ServerError")
    ELSE IF e.request THEN "NetworkError" ELSE "RequestError"

\* C13: a failed relay call yields a failure that tells the caller which of
\* the four kinds it is (AuthFailure for a 401 response, ServerError for
\* another response, NetworkError for no response, RequestError for a
\* request that was not sent): no failure of another kind gives the caller
\* the same Error.
C13_FailureTellsItsKind ==
    last.op = "sendFailed"
        => \A e \in AxiosErrors :
              RelayErrorMessage(e) = last.out.msg
                  => FailureKind(e) = FailureKind(last.error)

\* The number of requests in flight, of the chat and of the uploads.
Outstanding == Len(sends) + Len(clientUploads) + Len(policyUploads)

\* A step in which a request fails.
RequestFailed ==
    last'.op \in {"sendFailed", "clientUploadFailed", "policyUploadFailed"}

\* A step that issues a request: one more is in flight, or a send in flight
\* has another request than before.
RequestIssued ==
    \/ Len(sends') > Len(sends)
    \/ Len(clientUploads') > Len(clientUploads)
    \/ Len(policyUploads') > Len(policyUploads)
    \/ \E i \in DOMAIN sends \cap DOMAIN sends' :
          Len(sends') = Len(sends) /\ sends'[i].request # sends[i].request

C14_FailureIssuesNothing ==
    RequestFailed
        => /\ Outstanding' = Outstanding - 1
           /\ ~RequestIssued
           /\ \A i \in DOMAIN sends' : \E j \in DOMAIN sends : sends'[i] = sends[j]
           /\ \A i \in DOMAIN clientUploads' :
                 \E j \in DOMAIN clientUploads : clientUploads'[i] = clientUploads[j]
           /\ \A i \in DOMAIN policyUploads' :
                 \E j \in DOMAIN policyUploads : policyUploads'[i] = policyUploads[j]

C14_OneAttemptPerAction ==
    RequestIssued
        => \/ /\ last'.op \in {"sendAccepted", "clientUploadStarted",
                                "policyUploadStarted"}
              /\ Outstanding' = Outstanding + 1
           \/ /\ last'.op = "ragFallback"
              /\ Outstanding' = Outstanding
              /\ \E i \in DOMAIN sends :
                    /\ sends[i].request.url = "/api/rag-query"
                    /\ sends'[i].request.url = "/api/chat"
                    /\ sends'[i].ragResult \in RagResults

\* C14: nothing is retried: the step in which a relay or upload request
\* fails issues no request, and a request is issued only by a run of
\* handleSendMessage or of an upload handler that the user started (one
\* request each), or by the one call of /api/chat that follows an answered
\* /api/rag-query of a send in flight.
C14_NothingRetried == [][C14_FailureIssuesNothing /\ C14_OneAttemptPerAction]_vars

C14_Witness ==
    /\ last.op = "sendFailed"
    /\ last.error.request
    /\ ~last.error.response
    /\ sends = <<>>
    /\ Len(messages) = 4

Bearer(token) == JStr(<<"B", "e", "a", "r", "e", "r", " ">> \o token.v)

\* The send i has, after the step, a request that the step issued.
Issues(i) ==
    \/ i \notin DOMAIN sends
    \/ Len(sends') = Len(sends) /\ sends'[i].request # sends[i].request

\* C15: every request the relay client sends carries the access token of the
\* session as a bearer token when the session has one at that moment, and
\* is sent without an Authorization header when the session has none.
C15_RequestsCarryBearerToken ==
    [][\A i \in DOMAIN sends' :
          Issues(i)
              => LET headers == sends'[i].request.headers
                 IN  IF Truthy(session.accessToken)
                     THEN /\ "Authorization" \in DOMAIN headers
                          /\ headers["Authorization"] = Bearer(session.accessToken)
                     ELSE "Authorization" \notin DOMAIN headers]_vars

\* What the relay client does: it sends every request, and none of them
\* carries an Authorization header, whatever the session holds.
C15_RequestsCarryNoToken ==
    /\ [](\A i \in DOMAIN sends :
            DOMAIN sends[i].request.headers = {"Content-Type"})
    /\ [][(SendInvoked /\ ~Blank(inputMessage) /\ ~isLoading)
            => Len(sends') = Len(sends) + 1]_vars

C16_IdsFromClock ==
    /\ last'.op = "sendAccepted" => messages'[Len(messages')].id = now
    /\ SendEnded => messages'[Len(messages')].id = now + 1

\* C16: the id of a message is the wall clock's value when the message is
\* made, plus one for a reply or an error message; nothing else enters it,
\* so two messages of one conversation have the same id when the clock
\* values line up (the witness: a reply made at t and the user message sent
\* next at t + 1).
C16_IdsTakenFromClock == [][C16_IdsFromClock]_vars

C16_Witness ==
    /\ Len(messages) >= 3
    /\ messages[2].role = "assistant"
    /\ messages[3].role = "user"
    /\ messages[2].id = messages[3].id

\* The same with a clock that stands still: the user messages of two
\* exchanges have the same id, and so have their replies.
C16_SameClockValue ==
    /\ Len(messages) = 4
    /\ messages[1].id = messages[3].id
    /\ messages[2].id = messages[4].id

\* C17: a run of handleSendMessage with an input that is empty or holds
\* white space only changes nothing, whether isLoading is true or false: no
\* message is appended, isLoading keeps its value and no request is issued.
C17_BlankSendIsNoOp ==
    [][(SendInvoked /\ Blank(inputMessage))
          => /\ last'.op = "sendRejected"
             /\ messages' = messages
             /\ isLoading' = isLoading
             /\ Requests' = Requests]_vars

C17_Witness ==
    /\ last.op = "sendRejected"
    /\ inputMessage = <<" ">>
    /\ ~isLoading
    /\ sends = <<>>
    /\ Len(messages) = 2

C18_SetAndReset ==
    /\ last'.op = "sendAccepted" => (~isLoading /\ isLoading')
    /\ SendEnded => (isLoading /\ ~isLoading')

\* C18: isLoading is true exactly while a send is outstanding: the step that
\* accepts a send sets it, the step that appends the reply or the error
\* message resets it, and when the network calls of a send complete it is
\* false again, so the send control does not stay disabled.
C18_LoadingWhileSendOutstanding ==
    /\ [](isLoading <=> sends # <<>>)
    /\ [][C18_SetAndReset]_vars
    /\ isLoading ~> ~isLoading

C18_Witness ==
    /\ last.op = "sendFailed"
    /\ ~isLoading
    /\ sends = <<>>
    /\ Len(messages) = 2
    /\ messages[2].isError

\* The answer of a RAG response is there and not empty.
HasAnswer(r) == r.answer.t = "string" /\ Len(r.answer.v) > 0

\* The message the step appends.
Appended == messages'[Len(messages')]

\* handleSendMessage posts to /api/rag-query first.
C19_RagFirst ==
    last'.op = "sendAccepted"
        => /\ sends'[Len(sends')].request.url = "/api/rag-query"
           /\ sends'[Len(sends')].request.question = inputMessage

\* A call of /api/chat is in flight only for a send whose RAG call was
\* answered without an answer.
C19_ChatOnlyWithoutAnswer ==
    \A i \in DOMAIN sends :
        sends[i].request.url = "/api/chat"
            => sends[i].ragResult \in RagResults /\ ~HasAnswer(sends[i].ragResult)

\* A send ends from its RAG call with the answer as the reply or with the
\* error message, and from its chat call with the chat response's message
\* or with the error message; it never goes from the chat call to another.
C19_Ends ==
    /\ SendEnded
          => \E i \in DOMAIN sends :
                /\ sends' = Remove(sends, i)
                /\ (last'.op = "sendReplied" /\ sends[i].request.url = "/api/rag-query")
                      => \E r \in RagResults :
                            HasAnswer(r) /\ Appended.content = r.answer
                /\ (last'.op = "sendReplied" /\ sends[i].request.url = "/api/chat")
                      => \E r \in ChatResults : Appended.content = r.message
                /\ last'.op = "sendFailed"
                      => Appended.isError /\ Appended.content = JStr(ErrorContent)
    /\ \A i \in DOMAIN sends \cap DOMAIN sends' :
          (Len(sends') = Len(sends) /\ sends[i].request.url = "/api/chat")
              => sends'[i].request = sends[i].request

\* C19: a send queries /api/rag-query first.  /api/chat is called only when
\* that call succeeded without an answer (none, or an empty one), and the
\* reply is then the chat response's message.  When the RAG call returned a
\* non-empty answer the send ends with that answer as the reply, and when it
\* failed the send ends with the error message; /api/chat is not called in
\* either case.
C19_RagThenChatFallback ==
    /\ []C19_ChatOnlyWithoutAnswer
    /\ [][C19_RagFirst /\ C19_Ends]_vars

C19_Witness ==
    /\ last.op = "ragFallback"
    /\ Len(sends) = 1
    /\ sends[1].request.url = "/api/chat"
    /\ sends[1].ragResult.answer = JStr(<<>>)

\* A conversation as /api/chat takes it: role and content of each message,
\* in order.
History(msgs) ==
    [k \in DOMAIN msgs |-> [role |-> msgs[k].role, content |-> msgs[k].content]]

\* The run that accepts a send captures the conversation of that moment,
\* which does not hold the send's own user message yet.
C20_Captured ==
    last'.op = "sendAccepted"
        => /\ sends'[Len(sends')].messages = messages
           /\ messages' = Append(messages, UserMessage(inputMessage, now))

\* What a send captured stays as it is while the send is in flight.
C20_Kept ==
    \A i \in DOMAIN sends \cap DOMAIN sends' :
        Len(sends') = Len(sends) => sends'[i].messages = sends[i].messages

C20_Posted ==
    \A i \in DOMAIN sends :
        sends[i].request.url = "/api/chat"
            => sends[i].request.conversationHistory = History(sends[i].messages)

\* C20: the conversationHistory posted to /api/chat for a send is the
\* conversation as it was when the send was accepted, without the send's own
\* user message, as {role, content} records in order, error messages
\* included; a clear or any other step made while the send is in flight does
\* not change it.
C20_HistoryIsConversationAtAccept ==
    /\ []C20_Posted
    /\ [][C20_Captured /\ C20_Kept]_vars

C20_Witness ==
    /\ last.op = "ragFallback"
    /\ messages = <<>>
    /\ Len(sends) = 1
    /\ sends[1].request.url = "/api/chat"
    /\ Len(sends[1].request.conversationHistory) = 2
    /\ sends[1].request.conversationHistory[2] =
           [role |-> "assistant", content |-> JStr(ErrorContent)]

\* C21: in every reachable state, also after a clear made while a send is in
\* flight, the conversation alternates roles and starts with a user message:
\* every assistant message, error message or not, comes right after a user
\* message.
C21_RolesAlternate ==
    \A k \in DOMAIN messages :
        /\ k = 1 => messages[k].role = "user"
        /\ k > 1 => messages[k].role # messages[k - 1].role

\* What holds instead: between two clears the roles alternate, so an
\* assistant message without a user message before it is the first of the
\* conversation, the reply of a send that was in flight at the clear.
C21_OnlyFirstIsOrphan ==
    \A k \in DOMAIN messages :
        k > 1 => messages[k].role # messages[k - 1].role

(***************************************************************************)
(* Claims about the uploads and the steps that run beside them.            *)
(***************************************************************************)
Count(f, files) == Cardinality({k \in DOMAIN files : files[k] = f})

\* The step takes the file f, or one copy of it, off the list.
Leaves(f, old, new) == InList(f, old) /\ Count(f, new) < Count(f, old)

C22_Client ==
    \A k \in DOMAIN clientFiles :
        Leaves(clientFiles[k], clientFiles, clientFiles')
            => /\ last'.op = "clientUploadResolved"
               /\ \E i \in DOMAIN clientUploads :
                     ClientUploadEnds(i) /\ clientUploads[i].file = clientFiles[k]
               /\ InList(clientFiles[k], uploadedClientFiles')

C22_Policy ==
    \A k \in DOMAIN policyFiles :
        Leaves(policyFiles[k], policyFiles, policyFiles')
            => /\ last'.op = "policyUploadResolved"
               /\ \E i \in DOMAIN policyUploads :
                     /\ PolicyUploadEnds(i)
                     /\ InList(policyFiles[k], policyUploads[i].policyFiles)
               /\ InList(policyFiles[k], uploadedPolicyFiles')

\* C22: no staged file is lost: a file leaves a staged list only in the step
\* that ends, with success, an upload whose request it was part of, and it
\* is in the uploaded list after that step.  This covers the files staged
\* while an upload is in flight and the client files after the first.
C22_NoStagedFileLost == [][C22_Client /\ C22_Policy]_vars

\* The {name} records of a list the server answered with.
Records(entries) ==
    [k \in DOMAIN entries |-> [name |-> entries[k].name, kind |-> "record"]]

\* What the fetch makes of an uploaded list, given the server's list.
Fetched(uploaded, entries) ==
    IF entries # <<>> THEN Records(entries) ELSE uploaded

\* The fetch is made at mount and resolves once; no step starts another.
C23_Once ==
    /\ last'.op = "fetchResolved" => (fetching /\ ~fetching')
    /\ ~fetching => ~fetching'

\* Until the fetch has resolved, an uploaded list is non-empty only because
\* an upload of its category succeeded: such a list is left as it is, and an
\* empty one is replaced by the records of a non-empty server list.
C23_Fetch ==
    last'.op = "fetchResolved"
        => /\ uploadedClientFiles' =
                 IF uploadedClientFiles # <<>>
                 THEN uploadedClientFiles
                 ELSE Fetched(uploadedClientFiles, last'.files.csvFiles)
           /\ uploadedPolicyFiles' =
                 IF uploadedPolicyFiles # <<>>
                 THEN uploadedPolicyFiles
                 ELSE Fetched(uploadedPolicyFiles, last'.files.policyFiles)

\* C23: the uploaded lists are fetched from the server once, at mount: a
\* non-empty server list replaces the uploaded list of its category with
\* {name} records and an empty one leaves it as it is; an uploaded list that
\* holds the files of an upload that succeeded is not overwritten when the
\* fetch completes after that upload.
C23_FetchOnceAndNotOverUpload == [][C23_Once /\ C23_Fetch]_vars

\* What the mount effect does: the fetch resolves once, and a non-empty
\* server list replaces the uploaded list whatever that list holds.
C23_FetchReplaces ==
    [][/\ C23_Once
       /\ last'.op = "fetchResolved"
             => /\ uploadedClientFiles' =
                      Fetched(uploadedClientFiles, last'.files.csvFiles)
                /\ uploadedPolicyFiles' =
                      Fetched(uploadedPolicyFiles, last'.files.policyFiles)]_vars

====
